---- MODULE Spec2Model ----
(***************************************************************************)
(* Model of the LLM-powered system monitor: SystemInfoCollector (the       *)
(* metrics registry), LLMQueryProcessor (parse / synthesis stages) and     *)
(* SystemMonitorAgent (the orchestrator).  The language model and psutil   *)
(* are the environment: every call to them is a nondeterministic choice    *)
(* over the outcomes they can produce.                                     *)
(***************************************************************************)
EXTENDS Integers, Sequences, FiniteSets, TLC

\* Longest list of names a caller passes or the language model returns.
MaxNames == 2
\* Number of distinct values an operating-system query can report.
NumReadings == 2

(***************************************************************************)
(* Python values.  Every value is a tagged record; a call either returns   *)
(* a value or raises.                                                      *)
(***************************************************************************)
JStr(s) == [t |-> "str", s |-> s]
JNum(n) == [t |-> "num", n |-> n]
JNull == [t |-> "null"]
JList(items) == [t |-> "list", items |-> items]
\* A key the JSON object does not have.
Absent == [t |-> "absent"]
\* A JSON object (a dict) over the four descriptor keys; a missing key is Absent.
JObj(ftc, style, focus, reasoning) ==
    [t |-> "obj", functions_to_call |-> ftc, response_style |-> style,
     focus |-> focus, reasoning |-> reasoning]

Return(v) == [raised |-> FALSE, value |-> v]
Raise(e) == [raised |-> TRUE, exc |-> e]

Range(seq) == {seq[i] : i \in 1..Len(seq)}

\* str(x) as used inside the f-strings of the error messages.
PyStr(v) ==
    CASE v.t = "str" -> v.s
      [] v.t = "num" -> ToString(v.n)
      [] v.t = "null" -> "None"
      [] OTHER -> "[...]"

\* Whether a value can be a dict key (lists and dicts are unhashable).
Hashable(v) == v.t \notin {"list", "obj"}

(***************************************************************************)
(* SystemInfoCollector                                                     *)
(***************************************************************************)
\* self.available_functions as built by __init__ (keys in insertion order).
RegisteredFunctions ==
    <<"get_battery_info", "get_cpu_info", "get_memory_info", "get_disk_info",
      "get_network_info", "get_processes_info", "get_system_info",
      "get_uptime_info", "get_temperature_info">>

\* What the operating system answers to one collector's queries: the psutil /
\* platform call raises, reports that the sensor does not exist, or reports a value.
Readings ==
    {[status |-> "raises", value |-> 0], [status |-> "unavailable", value |-> 0]}
      \cup {[status |-> "ok", value |-> v] : v \in 1..NumReadings}

\* A collector's success payload (its shape is collector specific; the model
\* keeps which collector produced it and the value read).
Payload(name, value) == [kind |-> "payload", of |-> name, value |-> value, error |-> ""]
\* {'error': msg}
ErrorRecord(msg) == [kind |-> "error", of |-> "", value |-> 0, error |-> msg]
\* {'message': msg}, the temperature collector's answer without sensors.
MessageRecord(name, msg) == [kind |-> "message", of |-> name, value |-> 0, error |-> msg]

get_battery_info(r) ==
    CASE r.status = "raises" -> Return(ErrorRecord("Error getting battery info: OSError"))
      [] r.status = "unavailable" ->
            Return(ErrorRecord("Battery information not available (desktop system?)"))
      [] OTHER -> Return(Payload("get_battery_info", r.value))

\* cpu_freq() failing or missing only drops the frequency fields (inner try/pass).
get_cpu_info(r) ==
    CASE r.status = "raises" -> Return(ErrorRecord("Error getting CPU info: OSError"))
      [] r.status = "unavailable" -> Return(Payload("get_cpu_info", 0))
      [] OTHER -> Return(Payload("get_cpu_info", r.value))

get_temperature_info(r) ==
    CASE r.status = "raises" -> Return(ErrorRecord("Error getting temperature info: OSError"))
      [] r.status = "unavailable" ->
            Return(MessageRecord("get_temperature_info", "Temperature sensors not available"))
      [] OTHER -> Return(Payload("get_temperature_info", r.value))

\* get_memory_info, get_disk_info, get_network_info, get_processes_info,
\* get_system_info, get_uptime_info: one try block around the queries.
get_other_info(name, r) ==
    IF r.status = "raises"
    THEN Return(ErrorRecord("Error getting " \o name \o ": OSError"))
    ELSE Return(Payload(name, r.value))

\* Keyword arguments a collector's signature accepts.
AcceptedKwargs(name) == IF name = "get_processes_info" THEN {"limit"} ELSE {}

\* self.available_functions[function_name](**kwargs)
Collector(name, kwargs, r) ==
    IF ~(kwargs \subseteq AcceptedKwargs(name))
    THEN Raise("TypeError: unexpected keyword argument")
    ELSE CASE name = "get_battery_info" -> get_battery_info(r)
           [] name = "get_cpu_info" -> get_cpu_info(r)
           [] name = "get_temperature_info" -> get_temperature_info(r)
           [] OTHER -> get_other_info(name, r)

get_function_list(registry) == registry

\* One observed call to a collector.
Invocation(name, kwargs, out) ==
    [ev |-> "collector", name |-> name, kwargs |-> kwargs, out |-> out]

\* call_function raising for a name the registry does not know.
call_function_raise_unknown(registry, function_name, kwargs, r) ==
    IF ~Hashable(function_name)
    THEN [out |-> Raise("TypeError: unhashable type"), calls |-> <<>>]
    ELSE IF function_name.t = "str" /\ function_name.s \in Range(registry)
    THEN LET res == Collector(function_name.s, kwargs, r)
         IN  [out |-> IF res.raised
                      THEN Return(ErrorRecord("Error calling " \o function_name.s
                                                \o ": " \o res.exc))
                      ELSE res,
              calls |-> <<Invocation(function_name.s, kwargs, res)>>]
    ELSE [out |-> Raise("KeyError"), calls |-> <<>>]

\* call_function dispatching on the name alone (getattr), whatever the registry holds.
call_function_unchecked(registry, function_name, kwargs, r) ==
    IF ~Hashable(function_name)
    THEN [out |-> Raise("TypeError: unhashable type"), calls |-> <<>>]
    ELSE IF function_name.t = "str"
    THEN LET res == Collector(function_name.s, kwargs, r)
         IN  [out |-> IF res.raised
                      THEN Return(ErrorRecord("Error calling " \o function_name.s
                                                \o ": " \o res.exc))
                      ELSE res,
              calls |-> <<Invocation(function_name.s, kwargs, res)>>]
    ELSE [out |-> Return(ErrorRecord("Unknown function: " \o PyStr(function_name))),
          calls |-> <<>>]

\* call_function without its try block: what the collector raises reaches the caller.
call_function_no_try(registry, function_name, kwargs, r) ==
    IF ~Hashable(function_name)
    THEN [out |-> Raise("TypeError: unhashable type"), calls |-> <<>>]
    ELSE IF function_name.t = "str" /\ function_name.s \in Range(registry)
    THEN LET res == Collector(function_name.s, kwargs, r)
         IN  [out |-> res, calls |-> <<Invocation(function_name.s, kwargs, res)>>]
    ELSE [out |-> Return(ErrorRecord("Unknown function: " \o PyStr(function_name))),
          calls |-> <<>>]

\* call_function: the outcome and the collector invocations it made.
call_function(registry, function_name, kwargs, r) ==
    IF ~Hashable(function_name)
    THEN [out |-> Raise("TypeError: unhashable type"), calls |-> <<>>]
    ELSE IF function_name.t = "str" /\ function_name.s \in Range(registry)
    THEN LET res == Collector(function_name.s, kwargs, r)
         IN  [out |-> IF res.raised
                      THEN Return(ErrorRecord("Error calling " \o function_name.s
                                                \o ": " \o res.exc))
                      ELSE res,
              calls |-> <<Invocation(function_name.s, kwargs, res)>>]
    ELSE [out |-> Return(ErrorRecord("Unknown function: " \o PyStr(function_name))),
          calls |-> <<>>]

(***************************************************************************)
(* A Python dict: a sequence of key/value entries with distinct keys, in   *)
(* insertion order.                                                        *)
(***************************************************************************)
EmptyDict == <<>>
DictKeys(d) == [i \in 1..Len(d) |-> d[i].key]
DictHas(d, k) == \E i \in 1..Len(d) : d[i].key = k
DictGet(d, k) == d[CHOOSE i \in 1..Len(d) : d[i].key = k].value
\* A dict whose assignment keeps the value a key already has.
DictSetKeepFirst(d, k, v) ==
    IF DictHas(d, k) THEN d ELSE Append(d, [key |-> k, value |-> v])

\* d[k] = v: an existing key keeps its position and takes the new value.
DictSet(d, k, v) ==
    IF DictHas(d, k)
    THEN [i \in 1..Len(d) |-> IF d[i].key = k THEN [key |-> k, value |-> v] ELSE d[i]]
    ELSE Append(d, [key |-> k, value |-> v])

\* Characters of the strings the model uses where a list is expected.
StrChars(s) ==
    CASE s = "" -> <<>>
      [] s = "cpu" -> <<JStr("c"), JStr("p"), JStr("u")>>
      [] OTHER -> <<JStr(s)>>

\* iter(v) of the for statement.
Iterate(v) ==
    CASE v.t = "list" -> Return(v.items)
      [] v.t = "str" -> Return(StrChars(v.s))
      [] OTHER -> Raise("TypeError: object is not iterable")

\* The for loop of call_multiple_functions from position i on; env[i] is what
\* the operating system answers during the i-th iteration.
RECURSIVE CallEach(_, _, _, _, _, _)
CallEach(registry, names, env, i, results, calls) ==
    IF i > Len(names)
    THEN [out |-> Return(results), calls |-> calls]
    ELSE LET one == call_function(registry, names[i], {}, env[i])
         IN  IF one.out.raised
             THEN [out |-> one.out, calls |-> calls \o one.calls]
             ELSE CallEach(registry, names, env, i + 1,
                           DictSet(results, names[i], one.out.value),
                           calls \o one.calls)

\* call_multiple_functions skipping the names the registry does not know.
call_multiple_functions_known_only(registry, function_names, env) ==
    LET it == Iterate(function_names)
    IN  IF it.raised
        THEN [out |-> it, calls |-> <<>>]
        ELSE CallEach(registry,
                      SelectSeq(it.value,
                                LAMBDA v : v.t = "str" /\ v.s \in Range(registry)),
                      env, 1, EmptyDict, <<>>)

call_multiple_functions(registry, function_names, env) ==
    LET it == Iterate(function_names)
    IN  IF it.raised
        THEN [out |-> it, calls |-> <<>>]
        ELSE CallEach(registry, it.value, env, 1, EmptyDict, <<>>)

(***************************************************************************)
(* The language model, as LLMQueryProcessor sees it.  A reply is what      *)
(* client.chat.completions.create does: it raises, returns no choice,      *)
(* returns a message without content, or returns a text.                   *)
(***************************************************************************)
ReplyRaises == [kind |-> "raises"]
ReplyNoChoice == [kind |-> "no_choice"]
ReplyNoContent == [kind |-> "no_content"]
ReplyText(text) == [kind |-> "text", text |-> text]

\* response.choices[0].message.content
Content(reply) ==
    CASE reply.kind = "raises" -> Raise("APIError")
      [] reply.kind = "no_choice" -> Raise("IndexError")
      [] reply.kind = "no_content" -> Return(JNull)
      [] OTHER -> Return(reply.text)

\* A parse-stage text: what precedes the document and the JSON document it
\* holds, if any.
NoDoc == [t |-> "nodoc"]
JsonText(lead, doc) == [t |-> "jsontext", lead |-> lead, doc |-> doc]
Whitespace == {"", " ", "\n"}

\* json.loads: surrounding whitespace is skipped, anything else in front of the
\* document, or no document at all, is a JSONDecodeError; None is a TypeError.
json_loads(content) ==
    IF content.t # "jsontext" THEN Raise("TypeError")
    ELSE IF content.lead \notin Whitespace \/ content.doc = NoDoc
    THEN Raise("JSONDecodeError")
    ELSE Return(content.doc)

\* dict.get(key, default)
Get(obj, key, default) == IF obj[key] = Absent THEN default ELSE obj[key]

DefaultFunctions ==
    JList(<<JStr("get_battery_info"), JStr("get_cpu_info"), JStr("get_memory_info")>>)
FallbackParsingError ==
    JObj(DefaultFunctions, JStr("brief"), JStr("general"),
         JStr("Fallback due to parsing error"))
FallbackApiError ==
    JObj(DefaultFunctions, JStr("brief"), JStr("general"),
         JStr("Fallback due to API error"))

\* parse_query with a single except clause: every failure takes the API-error path.
parse_query_single_handler(user_query, functions, reply) ==
    LET content == Content(reply)
        parsed == IF content.raised THEN content ELSE json_loads(content.value)
    IN  IF ~parsed.raised THEN Return(parsed.value) ELSE Return(FallbackApiError)

\* parse_query: building the prompt cannot fail; the try block holds the call
\* to the model and json.loads.
parse_query(user_query, functions, reply) ==
    LET content == Content(reply)
        parsed == IF content.raised THEN content ELSE json_loads(content.value)
    IN  IF ~parsed.raised THEN Return(parsed.value)
        ELSE IF parsed.exc = "JSONDecodeError" THEN Return(FallbackParsingError)
        ELSE Return(FallbackApiError)

(***************************************************************************)
(* Texts the program returns or receives in the synthesis stage: sequences *)
(* of words.                                                               *)
(***************************************************************************)
Text(words) == [t |-> "text", words |-> words]
IsSpace(w) == w \in {" ", "\n"}

RECURSIVE LStrip(_)
LStrip(ws) == IF ws # <<>> /\ IsSpace(Head(ws)) THEN LStrip(Tail(ws)) ELSE ws
RECURSIVE RStrip(_)
RStrip(ws) ==
    IF ws # <<>> /\ IsSpace(ws[Len(ws)]) THEN RStrip(SubSeq(ws, 1, Len(ws) - 1)) ELSE ws
\* str.strip()
Strip(ws) == RStrip(LStrip(ws))

\* repr of a collector result inside str(dict)
ReprResult(v) ==
    CASE v.kind = "error" -> <<"{'error':", v.error, "}">>
      [] v.kind = "message" -> <<"{'message':", v.error, "}">>
      [] OTHER -> <<"{", v.of, ToString(v.value), "}">>

\* str(system_data), the {system_data} of the fallback f-string
RECURSIVE ReprEntries(_, _)
ReprEntries(d, i) ==
    IF i > Len(d) THEN <<>>
    ELSE <<PyStr(d[i].key), ":">> \o ReprResult(d[i].value) \o ReprEntries(d, i + 1)
StrDict(d) == <<"{">> \o ReprEntries(d, 1) \o <<"}">>

FallbackPrefix ==
    "I gathered your system information but had trouble generating a response. Here's the raw data: "
\* The fallback string without the data.
FallbackResponseNoData(system_data) == Text(<<FallbackPrefix>>)
FallbackResponse(system_data) == Text(<<FallbackPrefix>> \o StrDict(system_data))

\* generate_response: the prompt is built before the try block
\* (parsing_result.get needs a dict); the try block holds the call to the model
\* and content.strip().
generate_response(user_query, system_data, parsing_result, reply) ==
    IF parsing_result.t # "obj" THEN Raise("AttributeError")
    ELSE LET content == Content(reply)
         IN  IF content.raised \/ content.value.t # "text"
             THEN Return(FallbackResponse(system_data))
             ELSE Return(Text(Strip(content.value.words)))

\* test_connection: "OK" in content, False on any exception
test_connection(reply) ==
    LET content == Content(reply)
    IN  IF content.raised \/ content.value.t # "text" THEN FALSE
        ELSE "OK" \in Range(content.value.words)

\* One observed call to the language model.
ModelCall(stage, reply) == [ev |-> "model", stage |-> stage, reply |-> reply]

(***************************************************************************)
(* SystemMonitorAgent                                                      *)
(***************************************************************************)
\* handle_query: its outcome, the values it passed between the stages and the
\* external calls it made, in order.
handle_query(registry, user_query, parse_reply, env, synth_reply) ==
    LET parsing_result == parse_query(user_query, get_function_list(registry),
                                      parse_reply).value
        parse_calls == <<ModelCall("parse", parse_reply)>>
    IN  IF parsing_result.t # "obj"
        THEN [out |-> Raise("AttributeError"), parsing_result |-> parsing_result,
              system_data |-> EmptyDict, calls |-> parse_calls]
        ELSE LET functions_to_call ==
                     Get(parsing_result, "functions_to_call", JList(<<>>))
                 collected == call_multiple_functions(registry, functions_to_call, env)
             IN  IF collected.out.raised
                 THEN [out |-> collected.out, parsing_result |-> parsing_result,
                       system_data |-> EmptyDict,
                       calls |-> parse_calls \o collected.calls]
                 ELSE [out |-> generate_response(user_query, collected.out.value,
                                                 parsing_result, synth_reply),
                       parsing_result |-> parsing_result,
                       system_data |-> collected.out.value,
                       calls |-> parse_calls \o collected.calls
                                   \o <<ModelCall("synth", synth_reply)>>]

\* test_components: get_cpu_info is called directly, then test_connection.
test_components(registry, r, ping_reply) ==
    LET cpu == get_cpu_info(r)
    IN  [out |-> Return([system_collector |-> ~cpu.raised,
                         llm_processor |-> test_connection(ping_reply)]),
         calls |-> <<Invocation("get_cpu_info", {}, cpu),
                     ModelCall("ping", ping_reply)>>]

(***************************************************************************)
(* Inputs: what callers pass and what the environment answers.             *)
(***************************************************************************)
Queries == {"What's my battery percentage?", "Is my laptop running hot?"}

\* Names callers and the model use: registered ones and one that is not.
NamePool == {"get_cpu_info", "get_battery_info", "get_gpu_info"}
CallPool == NamePool \cup {"get_processes_info", "get_temperature_info", "get_memory_info"}
KwargsPool == {{}, {"limit"}}

SeqsUpTo(S, n) == UNION {[1..k -> S] : k \in 0..n}
NameLists == SeqsUpTo({JStr(n) : n \in NamePool}, MaxNames)
Envs(n) == [1..n -> Readings]

\* Values the model may put under functions_to_call: lists of names, lists
\* holding something else, and values that are no list at all.
FtcValues ==
    {JList(l) : l \in NameLists}
      \cup {JList(<<JList(<<>>)>>), JList(<<JNum(7)>>), JStr("cpu"), JNum(3), JNull, Absent}
\* Values that need no collector.
FtcPlain == FtcValues \ {JList(l) : l \in NameLists \ {<<>>}}

\* JSON documents of a parse-stage reply: descriptors with all four keys,
\* descriptors missing keys, and documents that are no object.
Docs ==
    {JObj(f, JStr("detailed"), JStr("cpu"), JStr("User asks about the CPU")) :
         f \in FtcValues}
      \cup {JObj(f, st, fo, re) :
              f \in FtcPlain \cup {JList(<<JStr("get_cpu_info")>>)},
              st \in {JStr("conversational"), Absent},
              fo \in {JStr("temperature"), Absent},
              re \in {JStr("User concerned about temperature"), Absent}}
      \cup {JList(<<>>), JStr("get_cpu_info"), JNum(1), JNull}

ParseReplies ==
    {ReplyRaises, ReplyNoChoice, ReplyNoContent}
      \cup {ReplyText(JsonText("", d)) : d \in Docs \cup {NoDoc}}
      \cup {ReplyText(JsonText(lead, d)) :
              lead \in {"\n", "~~~json", "Sure! Here is the JSON:"},
              d \in {NoDoc,
                     JObj(JList(<<JStr("get_battery_info")>>), JStr("brief"),
                          JStr("battery_percentage"),
                          JStr("User wants specific battery percentage"))}}

SynthTexts ==
    {Text(<<>>), Text(<<" ">>), Text(<<"Your CPU is fine">>), Text(<<"\n", "OK", " ">>)}
SynthReplies == {ReplyRaises, ReplyNoContent} \cup {ReplyText(x) : x \in SynthTexts}
PingReplies == {ReplyRaises, ReplyNoChoice, ReplyNoContent} \cup {ReplyText(x) : x \in SynthTexts}

\* Number of iterations of the collection loop handle_query runs for a reply.
IterationCount(registry, user_query, parse_reply) ==
    LET d == parse_query(user_query, get_function_list(registry), parse_reply).value
        it == IF d.t = "obj" THEN Iterate(Get(d, "functions_to_call", JList(<<>>)))
              ELSE Raise("AttributeError")
    IN  IF it.raised THEN 0 ELSE Len(it.value)

(***************************************************************************)
(* State: the registry of the agent's collector, the call in progress as   *)
(* its caller sees it (operation, arguments, outcome, external calls made  *)
(* in order), and whether a component test has reported a failure.         *)
(***************************************************************************)
VARIABLES available_functions, op, args, result, calls, health_failed

vars == <<available_functions, op, args, result, calls, health_failed>>

NoResult == [out |-> Return(JNull)]

\* SystemMonitorAgent.__init__ / SystemInfoCollector.__init__
Init ==
    /\ available_functions = RegisteredFunctions
    /\ op = "idle"
    /\ args = <<>>
    /\ result = NoResult
    /\ calls = <<>>
    /\ health_failed = FALSE

HandleQuery ==
    /\ op = "idle"
    /\ \E q \in Queries, pr \in ParseReplies, sr \in SynthReplies :
         \E env \in Envs(IterationCount(available_functions, q, pr)) :
            LET h == handle_query(available_functions, q, pr, env, sr)
            IN  /\ op' = "handle_query"
                /\ args' = <<q>>
                /\ result' = [out |-> h.out, parsing_result |-> h.parsing_result,
                              system_data |-> h.system_data]
                /\ calls' = h.calls
    /\ UNCHANGED <<available_functions, health_failed>>

TestComponents ==
    /\ op = "idle"
    /\ \E r \in Readings, reply \in PingReplies :
         LET tc == test_components(available_functions, r, reply)
         IN  /\ op' = "test_components"
             /\ args' = <<>>
             /\ result' = [out |-> tc.out]
             /\ calls' = tc.calls
             /\ health_failed' = (health_failed \/ ~tc.out.value.system_collector
                                    \/ ~tc.out.value.llm_processor)
    /\ UNCHANGED available_functions

GetAvailableFunctions ==
    /\ op = "idle"
    /\ op' = "get_available_functions"
    /\ args' = <<>>
    /\ result' = [out |-> Return(get_function_list(available_functions))]
    /\ calls' = <<>>
    /\ UNCHANGED <<available_functions, health_failed>>

\* get_raw_system_data, i.e. call_multiple_functions called from outside
GetRawSystemData ==
    /\ op = "idle"
    /\ \E names \in NameLists :
         \E env \in Envs(Len(names)) :
            LET m == call_multiple_functions(available_functions, JList(names), env)
            IN  /\ op' = "call_multiple_functions"
                /\ args' = <<names>>
                /\ result' = [out |-> m.out]
                /\ calls' = m.calls
    /\ UNCHANGED <<available_functions, health_failed>>

CallFunction ==
    /\ op = "idle"
    /\ \E name \in CallPool, kwargs \in KwargsPool, r \in Readings :
         LET c == call_function(available_functions, JStr(name), kwargs, r)
         IN  /\ op' = "call_function"
             /\ args' = <<name, kwargs>>
             /\ result' = [out |-> c.out]
             /\ calls' = c.calls
    /\ UNCHANGED <<available_functions, health_failed>>

ParseQuery ==
    /\ op = "idle"
    /\ \E q \in Queries, reply \in ParseReplies :
         /\ op' = "parse_query"
         /\ args' = <<q>>
         /\ result' = [out |-> parse_query(q, get_function_list(available_functions), reply)]
         /\ calls' = <<ModelCall("parse", reply)>>
    /\ UNCHANGED <<available_functions, health_failed>>

\* The call is over: its caller has the outcome and may call again.
Finish ==
    /\ op # "idle"
    /\ op' = "idle"
    /\ args' = <<>>
    /\ result' = NoResult
    /\ calls' = <<>>
    /\ UNCHANGED <<available_functions, health_failed>>

Next ==
    \/ HandleQuery
    \/ TestComponents
    \/ GetAvailableFunctions
    \/ GetRawSystemData
    \/ CallFunction
    \/ ParseQuery
    \/ Finish

Spec == Init /\ [][Next]_vars

(***************************************************************************)
(* Observations used by the properties below.                              *)
(***************************************************************************)
\* The call ran the parse stage.
Parsed == op \in {"parse_query", "handle_query"}
ParseReply == calls[1].reply
ParsingResult == IF op = "parse_query" THEN result.out.value ELSE result.parsing_result

\* The call to the model did not complete or delivered no text.
CallFailed(reply) == reply.kind \in {"raises", "no_choice", "no_content"}
\* The model delivered a text that is not JSON.
Unparseable(reply) == reply.kind = "text" /\ json_loads(reply.text).raised
\* The model delivered a JSON object that lacks one of the four required keys.
LacksRequiredKey(reply) ==
    /\ reply.kind = "text"
    /\ ~json_loads(reply.text).raised
    /\ reply.text.doc.t = "obj"
    /\ \E k \in {"functions_to_call", "response_style", "focus", "reasoning"} :
         reply.text.doc[k] = Absent

ReturnedText(out) == ~out.raised /\ out.value.t = "text"
Contains(ws, sub) == \E i \in 0..(Len(ws) - Len(sub)) : SubSeq(ws, i + 1, i + Len(sub)) = sub
IsModelCall(c, stage) == c.ev = "model" /\ c.stage = stage
SynthCalls == {i \in 1..Len(calls) : IsModelCall(calls[i], "synth")}
CollectorCalls == {i \in 1..Len(calls) : calls[i].ev = "collector"}

\* C1: for every query, every behaviour of the model at both stages and every
\* behaviour of the collectors, handle_query returns a string and raises nothing.
C1_AnswerNeverRaises ==
    op = "handle_query" => ReturnedText(result.out)

\* C2: a parse-stage reply that is valid JSON but lacks a required key makes
\* parse_query return the fixed fallback descriptor (battery, cpu, memory;
\* "brief") rather than the model's object.
C2_ShapeFailureGivesFallback ==
    (op = "parse_query" /\ LacksRequiredKey(ParseReply)) =>
        /\ ~result.out.raised
        /\ ParsingResult.functions_to_call =
             JList(<<JStr("get_battery_info"), JStr("get_cpu_info"), JStr("get_memory_info")>>)
        /\ ParsingResult.response_style = JStr("brief")

\* C3: when the parse-stage call fails or its text is not JSON, parse_query
\* does not raise and returns the hard-coded fallback descriptor: battery, cpu,
\* memory in that order, "brief", "general", and a reasoning that tells the
\* unparseable-response path from the call-failure path.
C3_ParseFallback ==
    (Parsed /\ (CallFailed(ParseReply) \/ Unparseable(ParseReply))) =>
        /\ op = "parse_query" => ~result.out.raised
        /\ ParsingResult.t = "obj"
        /\ ParsingResult.functions_to_call =
             JList(<<JStr("get_battery_info"), JStr("get_cpu_info"), JStr("get_memory_info")>>)
        /\ ParsingResult.response_style = JStr("brief")
        /\ ParsingResult.focus = JStr("general")
        /\ ParsingResult.reasoning =
             IF Unparseable(ParseReply) THEN JStr("Fallback due to parsing error")
             ELSE JStr("Fallback due to API error")

C3_Witness ==
    /\ op = "parse_query"
    /\ ParseReply.kind = "text"
    /\ ParseReply.text.lead = "~~~json"
    /\ ParseReply.text.doc # NoDoc
    /\ result.out.value.reasoning = JStr("Fallback due to parsing error")

\* C4: call_function never propagates an exception: an unregistered name gives
\* an error record, a registered name whose collector raises gives an error
\* record, a registered name whose collector returns gives exactly its payload.
C4_InvokeContained ==
    op = "call_function" =>
        /\ ~result.out.raised
        /\ IF args[1] \in Range(available_functions)
           THEN /\ Len(calls) = 1
                /\ calls[1].name = args[1]
                /\ calls[1].kwargs = args[2]
                /\ IF calls[1].out.raised
                   THEN result.out.value.kind = "error"
                   ELSE result.out.value = calls[1].out.value
           ELSE /\ calls = <<>>
                /\ result.out.value.kind = "error"

C4_Witness ==
    /\ op = "call_function"
    /\ args[1] = "get_cpu_info"
    /\ calls # <<>>
    /\ calls[1].out.raised
    /\ result.out.value.kind = "error"

\* The list handle_query hands to call_multiple_functions.
FunctionsToCall == Get(result.parsing_result, "functions_to_call", JList(<<>>))
\* call_multiple_functions ran over a list of names.
Collected ==
    \/ op = "call_multiple_functions"
    \/ /\ op = "handle_query"
       /\ result.parsing_result.t = "obj"
       /\ FunctionsToCall.t = "list"
       /\ \A i \in 1..Len(FunctionsToCall.items) : FunctionsToCall.items[i].t = "str"
NameItems == IF op = "call_multiple_functions" THEN args[1] ELSE FunctionsToCall.items
\* The names it was given, as a sequence of strings, and the bundle it returned.
NamesGiven == [i \in 1..Len(NameItems) |-> NameItems[i].s]
Bundle == IF op = "call_multiple_functions" THEN result.out.value ELSE result.system_data
BundleReturned == IF op = "call_multiple_functions" THEN ~result.out.raised ELSE SynthCalls # {}
Registered(n) == n \in Range(available_functions)
\* The distinct elements of a sequence, in order of first occurrence.
RECURSIVE FirstOccurrences(_)
FirstOccurrences(seq) ==
    IF seq = <<>> THEN <<>>
    ELSE LET rest == FirstOccurrences(SubSeq(seq, 1, Len(seq) - 1))
             last == seq[Len(seq)]
         IN  IF last \in Range(rest) THEN rest ELSE Append(rest, last)
\* The collectors invoked, in the order of their invocation.
CollectorSeq == SelectSeq(calls, LAMBDA c : c.ev = "collector")
InvokedNames == [i \in 1..Len(CollectorSeq) |-> CollectorSeq[i].name]
BundleNames(d) == [i \in 1..Len(d) |-> d[i].key.s]

\* C5 as stated: call_multiple_functions invokes the names in input order with
\* no keyword arguments and returns one entry per entry of the input, in the
\* same order, |DataBundle| = |functions_to_call|, unknown names included.
C5_OneEntryPerInput ==
    Collected =>
        /\ BundleReturned
        /\ InvokedNames = SelectSeq(NamesGiven, Registered)
        /\ \A i \in CollectorCalls : calls[i].kwargs = {}
        /\ Len(Bundle) = Len(NamesGiven)
        /\ BundleNames(Bundle) = NamesGiven

\* C5 amended: call_multiple_functions invokes the names in input order with
\* no keyword arguments and returns one entry per distinct name of the input,
\* in order of first occurrence (one per entry of the input when no name
\* repeats); an unknown name appears at its position with an error record.
C5_OneEntryPerDistinctName ==
    Collected =>
        /\ BundleReturned
        /\ InvokedNames = SelectSeq(NamesGiven, Registered)
        /\ \A i \in CollectorCalls : calls[i].kwargs = {}
        /\ BundleNames(Bundle) = FirstOccurrences(NamesGiven)
        /\ Len(Bundle) = Cardinality(Range(NamesGiven))
        /\ \A i \in 1..Len(Bundle) :
             ~Registered(Bundle[i].key.s) =>
                 Bundle[i].value.kind = "error"

C5_Witness ==
    /\ op = "call_multiple_functions"
    /\ NamesGiven = <<"get_gpu_info", "get_cpu_info">>
    /\ Len(Bundle) = 2
    /\ Bundle[1].value.kind = "error"
    /\ Bundle[2].value.kind = "payload"

\* Positions of the invocations of collector n among the calls made.
InvocationsOf(n) == {i \in CollectorCalls : calls[i].name = n}
Max(S) == CHOOSE x \in S : \A y \in S : y <= x

\* C6: a name given more than once is invoked once per occurrence, the bundle
\* has exactly one key for it, holding the result of the last invocation, and
\* the call does not fail.
C6_LastWriteWins ==
    Collected =>
        /\ BundleReturned
        /\ \A n \in Range(NamesGiven) :
             /\ Cardinality({i \in 1..Len(Bundle) :
                               Bundle[i].key = JStr(n)}) = 1
             /\ Registered(n) =>
                  /\ Cardinality(InvocationsOf(n)) =
                       Cardinality({i \in 1..Len(NamesGiven) : NamesGiven[i] = n})
                  /\ DictGet(Bundle, JStr(n)) =
                       calls[Max(InvocationsOf(n))].out.value

C6_Witness ==
    /\ op = "handle_query"
    /\ Collected
    /\ NamesGiven = <<"get_cpu_info", "get_cpu_info">>
    /\ Len(CollectorSeq) = 2
    /\ CollectorSeq[1].out.value = Payload("get_cpu_info", 1)
    /\ CollectorSeq[2].out.value = Payload("get_cpu_info", 2)
    /\ Bundle = <<[key |-> JStr("get_cpu_info"),
                             value |-> Payload("get_cpu_info", 2)]>>

\* The reply the synthesis stage got, when handle_query reached that stage.
SynthReply == calls[Len(calls)].reply

\* C7: when the synthesis-stage call fails, generate_response raises nothing
\* and returns the fixed fallback string: it says that no response could be
\* generated and holds the rendering of the whole bundle, error records
\* included.
C7_SynthesisFallback ==
    (op = "handle_query" /\ SynthCalls # {} /\ CallFailed(SynthReply)) =>
        /\ ReturnedText(result.out)
        /\ Head(result.out.value.words) =
             "I gathered your system information but had trouble generating a response. Here's the raw data: "
        /\ Contains(result.out.value.words, StrDict(result.system_data))
        /\ \A i \in 1..Len(result.system_data) :
             LET e == result.system_data[i]
             IN  /\ Contains(result.out.value.words, <<PyStr(e.key), ":">>)
                 /\ e.value.kind = "error" =>
                      Contains(result.out.value.words, <<e.value.error>>)
                 /\ e.value.kind = "payload" =>
                      Contains(result.out.value.words,
                               <<e.value.of, ToString(e.value.value)>>)

C7_Witness ==
    /\ op = "handle_query"
    /\ SynthCalls # {}
    /\ SynthReply.kind = "raises"
    /\ Len(result.system_data) = 2
    /\ result.system_data[1].value.kind = "error"
    /\ result.system_data[2].value.kind = "payload"
    /\ ReturnedText(result.out)

\* C8: with an empty functions_to_call the bundle is empty and no collector
\* is invoked, the synthesis stage is still called with that bundle, and
\* generate_response returns a non-empty string whatever the model does.
C8_EmptyBundleAnswered ==
    (op = "handle_query" /\ result.parsing_result.t = "obj"
       /\ FunctionsToCall = JList(<<>>)) =>
        /\ result.system_data = EmptyDict
        /\ CollectorCalls = {}
        /\ Cardinality(SynthCalls) = 1
        /\ ReturnedText(result.out)
        /\ result.out.value.words # <<>>

\* The component test found the collector working / the model unreachable.
RegistryWorks == ~calls[1].out.raised /\ calls[1].out.value.kind = "payload"
ModelUnreachable == calls[2].reply.kind = "raises"

\* C9: test_components reports the registry entry true and the model entry
\* false when the registry works and the model is unreachable; handle_query
\* never runs the component test; and after a component test that reported a
\* failure handle_query is still callable and returns a string.
C9_HealthCheckIndependent ==
    /\ (op = "test_components" /\ RegistryWorks /\ ModelUnreachable) =>
          result.out = Return([system_collector |-> TRUE, llm_processor |-> FALSE])
    /\ op = "handle_query" =>
          \A i \in 1..Len(calls) : ~IsModelCall(calls[i], "ping")
    /\ (op = "idle" /\ health_failed) => ENABLED HandleQuery
    /\ (op = "handle_query" /\ health_failed) => ReturnedText(result.out)

\* C10: the registry entry of the component test is true if and only if the
\* representative collector was invoked successfully; it is false whenever
\* that collector's system query raised and its result is an error record.
C10_RegistryEntryReflectsCollector ==
    op = "test_components" =>
        (result.out.value.system_collector <=> RegistryWorks)

ParseCalls == {i \in 1..Len(calls) : IsModelCall(calls[i], "parse")}

\* C11: every handle_query runs parse, then the collectors, then synthesis:
\* exactly one parse-stage call to the model (no retry, also when it fails),
\* then the collector invocations in functions_to_call order, then exactly one
\* synthesis-stage call; no collector runs before the parse call and the
\* synthesis call comes after the last collector invocation.
C11_StrictStageOrder ==
    op = "handle_query" =>
        /\ Len(calls) >= 2
        /\ ParseCalls = {1}
        /\ SynthCalls = {Len(calls)}
        /\ \A i \in 2..(Len(calls) - 1) : calls[i].ev = "collector"
        /\ Collected => InvokedNames = SelectSeq(NamesGiven, Registered)

\* The name at position i of the list failed: it is unknown, or its collector
\* answered with an error record.  InvocationAt(i) is the invocation made for a
\* registered name at position i.
InvocationAt(i) ==
    CollectorSeq[Len(SelectSeq(SubSeq(NamesGiven, 1, i), Registered))]
FailedAt(i) ==
    \/ ~Registered(NamesGiven[i])
    \/ InvocationAt(i).out.value.kind = "error"
LastPosition(n) == Max({i \in 1..Len(NamesGiven) : NamesGiven[i] = n})

\* C12 as stated: when the i-th name of functions_to_call fails (unknown, or
\* its collector fails), every later name is still invoked, the synthesis stage
\* is still called, and the bundle it gets holds an error record for the failed
\* name and the unaltered results of the other names.
C12_FailureContained ==
    (op = "handle_query" /\ Collected) =>
        \A i \in 1..Len(NamesGiven) :
            FailedAt(i) =>
                /\ InvokedNames = SelectSeq(NamesGiven, Registered)
                /\ Cardinality(SynthCalls) = 1
                /\ DictHas(Bundle, JStr(NamesGiven[i]))
                /\ DictGet(Bundle, JStr(NamesGiven[i])).kind = "error"
                /\ \A j \in 1..Len(NamesGiven) :
                     (NamesGiven[j] # NamesGiven[i] /\ Registered(NamesGiven[j])) =>
                         DictGet(Bundle, JStr(NamesGiven[j])) =
                             InvocationAt(LastPosition(NamesGiven[j])).out.value

\* C12 amended: when the i-th name fails, every later name is still invoked,
\* the synthesis stage is still called, and the bundle holds for the failed
\* name the result of its last occurrence in the list (the error record,
\* unless the same name occurs again later and succeeds) and the unaltered
\* results of the other names.
C12_FailureContainedLastOccurrence ==
    (op = "handle_query" /\ Collected) =>
        \A i \in 1..Len(NamesGiven) :
            FailedAt(i) =>
                /\ InvokedNames = SelectSeq(NamesGiven, Registered)
                /\ Cardinality(SynthCalls) = 1
                /\ DictHas(Bundle, JStr(NamesGiven[i]))
                /\ (~FailedAt(LastPosition(NamesGiven[i])))
                     \/ DictGet(Bundle, JStr(NamesGiven[i])).kind = "error"
                /\ \A j \in 1..Len(NamesGiven) :
                     Registered(NamesGiven[j]) =>
                         DictGet(Bundle, JStr(NamesGiven[j])) =
                             InvocationAt(LastPosition(NamesGiven[j])).out.value

C12_Witness ==
    /\ op = "handle_query"
    /\ Collected
    /\ NamesGiven = <<"get_battery_info", "get_cpu_info">>
    /\ CollectorSeq[1].out.value.kind = "error"
    /\ InvokedNames = <<"get_battery_info", "get_cpu_info">>
    /\ Bundle[1].value.kind = "error"
    /\ Bundle[2].value = Payload("get_cpu_info", 2)
    /\ Cardinality(SynthCalls) = 1

\* What handle_query does with the names of the model: every collector it
\* invokes is registered and gets no keyword argument.
InvokesOnlyRegistered ==
    op = "handle_query" =>
        \A i \in CollectorCalls :
            /\ calls[i].name \in Range(get_function_list(available_functions))
            /\ calls[i].kwargs = {}

\* C13: whatever functions_to_call the model returns, handle_query invokes
\* only collectors registered in the registry (the names get_function_list
\* returns), always without keyword arguments, and the set of registered names
\* is the same before and after every handle_query, test_components and
\* get_function_list call.
C13_OnlyRegisteredInvoked ==
    /\ []InvokesOnlyRegistered
    /\ [][Range(available_functions') = Range(available_functions)]_vars

C13_Witness ==
    /\ op = "handle_query"
    /\ Collected
    /\ NamesGiven = <<"get_gpu_info", "get_cpu_info">>
    /\ InvokedNames = <<"get_cpu_info">>
    /\ \A i \in CollectorCalls : calls[i].kwargs = {}
    /\ Range(available_functions) = Range(RegisteredFunctions)
====
